---- MODULE Spec2Model ----
(***************************************************************************)
(* Model of the question resolution engine of JetLagHideAndSeek:           *)
(*   src/src/maps/questions/matching.ts   (matching questions)             *)
(*   src/unnamed/part_000                 (measuring questions)            *)
(*                                                                         *)
(* Geometry is modelled on a one-dimensional world of NumCells cells: a    *)
(* region (polygon, multipolygon, mask) is a set of cells, a point is a    *)
(* cell (its lng; lat is 0), the distance of two points is the absolute    *)
(* difference of their cells.  Every JavaScript value that may be null,    *)
(* undefined, false or a geometry is a record [k, g]: k is its kind and g  *)
(* its region (empty unless k is a geometry kind).                         *)
(***************************************************************************)
EXTENDS Integers, Sequences, FiniteSets, TLC

VARIABLES
    polyGeoJSON,     \* context: the drawn polygon, or null
    mapGeoLocation,  \* context: the coarse viewport
    mapGeoJSON,      \* context: the working map mask, or null
    hiderMode,       \* context: the hider coordinate, or false
    promises,        \* every promise a resolver call created, in creation order
    matchCache,      \* _.memoize cache of determineMatchingBoundary: key -> promise
    bufCache,        \* _.memoize cache of bufferedDeterminer: key -> promise
    fetches,         \* number of provider requests issued so far
    toasts,          \* the notifications surfaced so far
    lastCall,        \* history: the latest resolver call
    question,        \* the descriptor object handed to adjustPer* / hiderify*
    task,            \* the one caller flow (adjustPer*, hiderify*), its position and locals
    lastRun,         \* history: outcome of the latest completed caller flow
    faulty,          \* geometry primitive calls known to throw
    sound            \* geometry primitive calls known to return

vars == <<polyGeoJSON, mapGeoLocation, mapGeoJSON, hiderMode, promises, matchCache,
          bufCache, fetches, toasts, lastCall, question, task, lastRun, faulty, sound>>

ctxVars == <<polyGeoJSON, mapGeoLocation, mapGeoJSON, hiderMode>>
cacheVars == <<promises, matchCache, bufCache, fetches, toasts>>
callVars == <<lastCall>>
flowVars == <<question, task, lastRun, faulty, sound>>

-----------------------------------------------------------------------------
(* Bounds of the model *)

NumCells == 3        \* cells of the world
MaxCalls == 2        \* direct resolver calls in one behaviour

World == 1..NumCells
Regions == SUBSET World

-----------------------------------------------------------------------------
(* Values *)

V(kind, region) == [k |-> kind, g |-> region]
NullV == V("null", {})
UndefV == V("undefined", {})
FalseV == V("false", {})
Geom(region) == V("geom", region)
PointsV(region) == V("points", region)
Loc(region) == V("loc", region)
ErrV(name) == V(name, {})

NoBoundaryFound == "No boundary found"
NoEnglishName == "No English name"
TypeError == "TypeError"
GeometryError == "GeometryError"

ToastNoBoundary == "No boundary found for this zone"
ToastNoEnglish == "No English name found for this zone"
ToastRuntime == "Error finding places"
ToastTooMany == "Too many places found"

Abs(x) == IF x < 0 THEN -x ELSE x
Min(S) == CHOOSE x \in S : \A y \in S : x <= y
Max(S) == CHOOSE x \in S : \A y \in S : x >= y

(* turf.distance of a point to the nearest point of a non-empty point set *)
DistTo(pt, S) == Min({Abs(pt - c) : c \in S})

(* turf.buffer: everything within distance d of the region *)
Buffer(S, d) == {c \in World : \E s \in S : Abs(c - s) <= d}

(* Rectangle hull of a region: turf.bbox followed by turf.bboxPolygon *)
BBoxPolygon(S) == IF S = {} THEN {} ELSE {c \in World : Min(S) <= c /\ c <= Max(S)}

-----------------------------------------------------------------------------
(* Question descriptors.  same is the polarity of a matching question,      *)
(* hiderCloser that of a measuring question; cat is the admin level (0 when *)
(* the descriptor has no cat).                                              *)

Descriptor(fam, type, lng, cat, geo, polarity) ==
    [fam |-> fam, type |-> type, lat |-> 0, lng |-> lng, cat |-> cat, geo |-> geo,
     geoOrder |-> 1,
     same |-> polarity, hiderCloser |-> polarity, lengthComparison |-> "same"]

(* geoOrder is the order in which the properties of the geo object were      *)
(* inserted: it is no part of the value of geo (two geo objects of different *)
(* order are deep-equal) but JSON.stringify writes the properties in it.     *)
WithOrder(q, order) == [q EXCEPT !.geoOrder = order]

(* JSON.stringify of the geo property: absent when geo is undefined *)
StringifyGeo(q) ==
    [k |-> q.geo.k, g |-> q.geo.g,
     order |-> IF q.geo.k = "undefined" THEN 0 ELSE q.geoOrder]

Polarity(q) == IF q.fam = "matching" THEN q.same ELSE q.hiderCloser

(* mutant: the flip is lost *)
KeepPolarity(q) == q

(* question.same = !question.same, question.hiderCloser = !question.hiderCloser *)
FlipPolarity(q) ==
    IF q.fam = "matching" THEN [q EXCEPT !.same = ~q.same]
    ELSE [q EXCEPT !.hiderCloser = ~q.hiderCloser]

CategoryZones == {"aquarium", "zoo", "theme_park", "museum", "hospital", "cinema",
                  "library", "golf_course", "consulate", "park"}
FullTypes == {"aquarium-full", "zoo-full", "theme_park-full", "museum-full",
              "hospital-full", "cinema-full", "library-full", "golf_course-full",
              "consulate-full", "park-full"}
StationTypes == {"same-first-letter-station", "same-length-station", "same-train-line"}

(* matching.ts 125-139 and part_000 238-251: the subtypes without a boundary *)
NoBoundaryMatching == CategoryZones \cup StationTypes
NoBoundaryMeasuring == CategoryZones \cup {"mcdonalds", "seven11", "rail-measure"}
PlacesMatching == {"airport", "major-city"} \cup FullTypes
PlacesMeasuring == {"airport", "city"} \cup FullTypes

-----------------------------------------------------------------------------
(* The memoize resolvers (cache keys) *)

(* polyGeoJSON.get() ? polyGeoJSON.get() : mapGeoLocation.get() *)
Entirety == IF polyGeoJSON.k # "null" THEN polyGeoJSON ELSE mapGeoLocation

(* mutant: the whole descriptor is the key *)
MatchingKeyWholeDescriptor(q) ==
    [type |-> q.type, lat |-> q.lat, lng |-> q.lng, cat |-> q.cat,
     geo |-> StringifyGeo(q), same |-> q.same, entirety |-> Entirety]

(* mutant: the embedded geometry is left out of the key *)
MatchingKeyWithoutGeo(q) ==
    [type |-> q.type, lat |-> q.lat, lng |-> q.lng, cat |-> q.cat,
     entirety |-> Entirety]

(* matching.ts 244-254: JSON.stringify({type, lat, lng, cat, geo, entirety}) *)
MatchingKey(q) ==
    [type |-> q.type, lat |-> q.lat, lng |-> q.lng, cat |-> q.cat,
     geo |-> StringifyGeo(q), entirety |-> Entirety]

(* part_000 267-276: JSON.stringify({type, lat, lng, entirety, geo}) *)
BufferedKey(q) ==
    [type |-> q.type, lat |-> q.lat, lng |-> q.lng, cat |-> 0,
     geo |-> StringifyGeo(q), entirety |-> Entirety]

(* mutant: a failed resolution does not count as cached *)
MemoHasUnlessRejected(cache, key) ==
    key \in DOMAIN cache /\ promises[cache[key]].st # "rejected"

(* mutant: only settled results count as cached *)
MemoHasSettled(cache, key) ==
    key \in DOMAIN cache /\ promises[cache[key]].st # "pending"

(* _.memoize: cache.has(key), cache.set(key, result) *)
MemoHas(cache, key) == key \in DOMAIN cache
MemoSet(cache, key, pid) == (key :> pid) @@ cache

-----------------------------------------------------------------------------
(* Strings are sequences of characters; a name property is [d, s]: d says   *)
(* whether the property is defined.  The non-ASCII characters of the model  *)
(* are named: e_acute / E_ACUTE, sharp_s (whose upper case is "SS").        *)

LowerLetters == <<"a", "b", "c", "d", "e", "f", "g", "h", "i", "j", "k", "l", "m",
                  "n", "o", "p", "q", "r", "s", "t", "u", "v", "w", "x", "y", "z">>
UpperLetters == <<"A", "B", "C", "D", "E", "F", "G", "H", "I", "J", "K", "L", "M",
                  "N", "O", "P", "Q", "R", "S", "T", "U", "V", "W", "X", "Y", "Z">>
Range(f) == {f[i] : i \in DOMAIN f}
AsciiUpper == Range(UpperLetters)
AsciiLower == Range(LowerLetters)

NoName == [d |-> FALSE, s |-> <<>>]
Name(str) == [d |-> TRUE, s |-> str]

(* String.prototype.toUpperCase on a one-character string *)
ToUpperCase(c) ==
    IF c \in AsciiLower
      THEN <<UpperLetters[CHOOSE i \in DOMAIN LowerLetters : LowerLetters[i] = c]>>
    ELSE IF c = "e_acute" THEN <<"E_ACUTE">>
    ELSE IF c = "sharp_s" THEN <<"S", "S">>
    ELSE <<c>>

(* !x for a name property: undefined and "" are falsy *)
Falsy(n) == ~n.d \/ n.s = <<>>

(* /^[a-zA-Z]$/.test(name[0]) for a defined string: name[0] of "" is undefined *)
FirstIsAsciiLetter(n) == n.s # <<>> /\ n.s[1] \in AsciiLower \cup AsciiUpper

(* matching.ts 169-182: the outcome of deriving the grouping letter of a zone:  *)
(* [err, letter], err = "" when the letter was derived                          *)
LetterOf(zone) ==
    IF ~Falsy(zone.nameEn)
      THEN [err |-> "", letter |-> ToUpperCase(zone.nameEn.s[1])]
    ELSE IF ~zone.name.d
      THEN [err |-> TypeError, letter |-> <<>>]
    ELSE IF FirstIsAsciiLetter(zone.name)
      THEN [err |-> "", letter |-> ToUpperCase(zone.name.s[1])]
    ELSE [err |-> NoEnglishName, letter |-> <<>>]

(* An answer of findAdminBoundary: null, or a zone with its region and names *)
NoZone == [found |-> FALSE, g |-> {}, nameEn |-> NoName, name |-> NoName]
Zone(region, nameEn, name) == [found |-> TRUE, g |-> region, nameEn |-> nameEn, name |-> name]

-----------------------------------------------------------------------------
(* Provider answers of findPlacesInZone: [remark, elements].  An element has *)
(* an optional center (0: none), a direct coordinate and an IATA code.       *)

Element(center, lon, iata) == [center |-> center, lon |-> lon, iata |-> iata]

(* x.center ? x.center.lon : x.lon *)
ToPoint(x) == IF x.center # 0 THEN x.center ELSE x.lon

NoRemark == [d |-> FALSE, s |-> <<>>]
NoData == [remark |-> NoRemark, elements |-> <<>>]
RuntimeErrorMarker == <<"r", "u", "n", "t", "i", "m", "e", " ", "e", "r", "r", "o", "r">>

(* data.remark && data.remark.startsWith("runtime error") *)
StartsWith(str, prefix) ==
    Len(str) >= Len(prefix) /\ SubSeq(str, 1, Len(prefix)) = prefix
RemarkIsRuntimeError(remark) ==
    ~Falsy(remark) /\ StartsWith(remark.s, RuntimeErrorMarker)

ElementCap == 1000

(* mutant: the elements are not de-duplicated *)
UniqByIataKeepAll(elements) == elements

(* _.uniqBy(elements, x => x.tags.iata): the first element of every code *)
UniqByIata(elements) ==
    LET keep == {i \in DOMAIN elements :
                    \A j \in 1..(i - 1) : elements[j].iata # elements[i].iata}
        F[i \in 0..Len(elements)] ==
            IF i = 0 THEN <<>>
            ELSE IF i \in keep THEN Append(F[i - 1], elements[i]) ELSE F[i - 1]
    IN F[Len(elements)]

MapToPoints(elements) == [i \in DOMAIN elements |-> ToPoint(elements[i])]

(* mutant: the cap is exceeded only above 1000 elements *)
MatchingPlacesStrictCap(type, data) ==
    IF type = "airport" THEN [toast |-> "", points |-> MapToPoints(UniqByIata(data.elements))]
    ELSE IF type = "major-city" THEN [toast |-> "", points |-> MapToPoints(data.elements)]
    ELSE IF RemarkIsRuntimeError(data.remark) THEN [toast |-> ToastRuntime, points |-> <<>>]
    ELSE IF Len(data.elements) > ElementCap THEN [toast |-> ToastTooMany, points |-> <<>>]
    ELSE [toast |-> "", points |-> MapToPoints(data.elements)]

(* matching.ts 35-118, findMatchingPlaces after the provider answered:        *)
(* [toast, points]; toast = "" when nothing was surfaced                      *)
MatchingPlaces(type, data) ==
    IF type = "airport" THEN [toast |-> "", points |-> MapToPoints(UniqByIata(data.elements))]
    ELSE IF type = "major-city" THEN [toast |-> "", points |-> MapToPoints(data.elements)]
    ELSE IF RemarkIsRuntimeError(data.remark) THEN [toast |-> ToastRuntime, points |-> <<>>]
    ELSE IF Len(data.elements) >= ElementCap THEN [toast |-> ToastTooMany, points |-> <<>>]
    ELSE [toast |-> "", points |-> MapToPoints(data.elements)]

(* part_000 141-233, the point-set subtypes of determineMeasuringBoundary      *)
(* after the provider answered: [toast, points, gated]                         *)
MeasuringPlaces(type, data) ==
    IF type = "airport"
      THEN [toast |-> "", points |-> MapToPoints(UniqByIata(data.elements)), gated |-> FALSE]
    ELSE IF type = "city"
      THEN [toast |-> "", points |-> MapToPoints(data.elements), gated |-> FALSE]
    ELSE IF RemarkIsRuntimeError(data.remark)
      THEN [toast |-> ToastRuntime, points |-> <<>>, gated |-> TRUE]
    ELSE IF Len(data.elements) >= ElementCap
      THEN [toast |-> ToastTooMany, points |-> <<>>, gated |-> TRUE]
    ELSE [toast |-> "", points |-> MapToPoints(data.elements), gated |-> FALSE]

-----------------------------------------------------------------------------
(* Geometry collaborators (geo-utils), from their contracts *)

(* geoSpatialVoronoi: the cell of the i-th point, cells share their borders *)
VoronoiCell(points, i) ==
    {c \in World : \A j \in DOMAIN points : Abs(c - points[i]) <= Abs(c - points[j])}

(* matching.ts 229-237: the first cell that contains the reference point;      *)
(* miss is the numerical edge case in which no cell tests positive             *)
VoronoiBoundary(points, pt, miss) ==
    LET nearest == DistTo(pt, Range(points))
        hits == IF points = <<>> THEN {}
                ELSE {i \in DOMAIN points : Abs(pt - points[i]) = nearest}
    IN IF miss \/ hits = {} THEN UndefV ELSE Geom(VoronoiCell(points, Min(hits)))

(* arcBufferToPoint: the geometry buffered by the distance of the point to it *)
ArcBufferToPoint(S, pt) == IF S = {} THEN Geom({}) ELSE Geom(Buffer(S, DistTo(pt, S)))

(* modifyMapData(mapData, boundary, keepInside): intersection or difference;  *)
(* an empty result is null                                                     *)
ModifyMapData(mapData, boundary, keepInside) ==
    LET r == IF keepInside THEN mapData \cap boundary ELSE mapData \ boundary
    IN IF r = {} THEN NullV ELSE Geom(r)

(* holedMask: the complement of the region within the world extent *)
HoledMask(region) == World \ region

(* turf.booleanPointInPolygon *)
BooleanPointInPolygon(pt, region) == pt \in region

(* The world coastline returned by fetchCoastline *)
Coastline == {2}

(* part_000 88 and 103-140 with 261-265: the buffer of a coastline question    *)
(* for the working mask read at line 88                                        *)
CoastlineBuffer(q, maskRead) ==
    LET d == DistTo(q.lng, Coastline)
        box == BBoxPolygon(maskRead)
        delta == IF maskRead = {} THEN 0 ELSE Max(maskRead) - Min(maskRead)
        ext == IF maskRead = {} THEN {}
               ELSE {c \in World : Min(maskRead) - d - delta <= c
                                   /\ c <= Max(maskRead) + d + delta}
        diff == box \ Buffer(Coastline \cap ext, d)
    IN IF diff = {} THEN [st |-> "rejected", val |-> ErrV(GeometryError)]
       ELSE [st |-> "fulfilled", val |-> ArcBufferToPoint(diff, q.lng)]

-----------------------------------------------------------------------------
(* Promises.  A promise is the result of one invocation of the memoized      *)
(* async function: st is its state, val its value or error, step the await   *)
(* the resolver is suspended on ("done": none), maskRead the working mask    *)
(* read at part_000 88, letter the grouping letter of matching.ts 182,       *)
(* points the points converted from the provider answer, toast the           *)
(* notification the resolution surfaced.  History: answered, zone and data   *)
(* are the provider's answers, fingerprint the map context at the call.      *)

Promise(fam, key, q, st, val, step, maskRead) ==
    [fam |-> fam, key |-> key, type |-> q.type, lat |-> q.lat, lng |-> q.lng,
     cat |-> q.cat, geo |-> q.geo, st |-> st, val |-> val, step |-> step,
     maskRead |-> maskRead, letter |-> <<>>, points |-> <<>>,
     answered |-> FALSE, zone |-> NoZone, data |-> NoData, toast |-> "",
     fingerprint |-> Entirety, origin |-> q]

(* the points of a custom-points geometry, in coordinate order *)
SeqOfSet(S) ==
    LET F[i \in 0..Cardinality(S)] ==
            IF i = 0 THEN <<>>
            ELSE Append(F[i - 1], Min({c \in S : \A j \in 1..(i - 1) : F[i - 1][j] # c}))
    IN F[Cardinality(S)]

(* matching.ts 121-243 up to the first await of a provider *)
StartMatching(q, key, miss) ==
    IF q.type \in NoBoundaryMatching
      THEN Promise("matching", key, q, "fulfilled", FalseV, "done", UndefV)
    ELSE IF q.type = "custom-zone"
      THEN Promise("matching", key, q, "fulfilled", q.geo, "done", UndefV)
    ELSE IF q.type \in {"zone", "letter-zone"}
      THEN Promise("matching", key, q, "pending", UndefV, "admin", UndefV)
    ELSE IF q.type = "custom-points"
      THEN IF q.geo.k = "undefined"
             THEN Promise("matching", key, q, "rejected", ErrV(TypeError), "done", UndefV)
           ELSE Promise("matching", key, q, "fulfilled",
                        VoronoiBoundary(SeqOfSet(q.geo.g), q.lng, miss), "done", UndefV)
    ELSE Promise("matching", key, q, "pending", UndefV, "places", UndefV)

(* part_000 256-266 with 85-253 up to the first await of a provider *)
StartMeasuring(q, key) ==
    IF mapGeoJSON.k = "null"
      THEN Promise("measuring", key, q, "rejected", ErrV(TypeError), "done", mapGeoJSON)
    ELSE IF q.type \in NoBoundaryMeasuring
      THEN Promise("measuring", key, q, "fulfilled", FalseV, "done", mapGeoJSON)
    ELSE IF q.type = "custom-measure"
      THEN IF q.geo.k = "undefined"
             THEN Promise("measuring", key, q, "rejected", ErrV(TypeError), "done", mapGeoJSON)
           ELSE Promise("measuring", key, q, "fulfilled",
                        ArcBufferToPoint(q.geo.g, q.lng), "done", mapGeoJSON)
    ELSE IF q.type = "coastline"
      THEN Promise("measuring", key, q, "pending", UndefV, "coast", mapGeoJSON)
    ELSE Promise("measuring", key, q, "pending", UndefV, "places", mapGeoJSON)

-----------------------------------------------------------------------------
(* The memoized call, matching.ts 120-255 and part_000 255-277: the key is   *)
(* computed from the descriptor and the context of the moment; on a hit the  *)
(* cached promise is returned, on a miss the function runs up to its first   *)
(* await and its promise is cached.                                           *)

KeyOf(q) == IF q.fam = "matching" THEN MatchingKey(q) ELSE BufferedKey(q)
CacheOf(q) == IF q.fam = "matching" THEN matchCache ELSE bufCache

MemoCall(q, miss) ==
    LET key == KeyOf(q)
        hit == MemoHas(CacheOf(q), key)
        pid == IF hit THEN CacheOf(q)[key] ELSE Len(promises) + 1
        fresh == IF q.fam = "matching" THEN StartMatching(q, key, miss)
                 ELSE StartMeasuring(q, key)
    IN [pid |-> pid, hit |-> hit, key |-> key,
        promises |-> IF hit THEN promises ELSE Append(promises, fresh),
        matchCache |-> IF hit \/ q.fam # "matching" THEN matchCache
                       ELSE MemoSet(matchCache, key, pid),
        bufCache |-> IF hit \/ q.fam # "measuring" THEN bufCache
                     ELSE MemoSet(bufCache, key, pid),
        fetches |-> IF ~hit /\ fresh.st = "pending" THEN fetches + 1 ELSE fetches]

(* The signature of a call: the resolution-relevant fields of the descriptor *)
(* and the map-context fingerprint of the moment of the call.                *)
CanonicalSignature(q) ==
    [fam |-> q.fam, type |-> q.type, lat |-> q.lat, lng |-> q.lng,
     cat |-> IF q.fam = "matching" THEN q.cat ELSE 0, geo |-> q.geo,
     fingerprint |-> Entirety]

(* history of the resolver calls *)
LogCall(q, m) ==
    lastCall' = [n |-> lastCall.n + 1, pid |-> m.pid, sig |-> CanonicalSignature(q),
                 q |-> q,
                 mask |-> mapGeoJSON, hit |-> m.hit,
                 pendingHit |-> m.hit /\ promises[m.pid].st = "pending"]

Settled(pid) == promises[pid].st # "pending"

(* A caller flow whose awaited promise is settled runs before any other event *)
AwaitPcs == {"await1", "await2", "awaitAdjust", "awaitPlanning"}
FlowRunnable == task.pc \in AwaitPcs /\ Settled(task.pid)

(* A direct call of determineMatchingBoundary / bufferedDeterminer *)
CallResolver(q, miss) ==
    /\ ~FlowRunnable
    /\ lastCall.n < MaxCalls
    /\ LET m == MemoCall(q, miss)
       IN /\ promises' = m.promises
          /\ matchCache' = m.matchCache
          /\ bufCache' = m.bufCache
          /\ fetches' = m.fetches
          /\ LogCall(q, m)
    /\ UNCHANGED <<ctxVars, toasts, flowVars>>

-----------------------------------------------------------------------------
(* The provider answers: the suspended resolver resumes *)

Settle(i, st, val) == [promises EXCEPT ![i].st = st, ![i].val = val, ![i].step = "done"]

(* mutant: the null check of the zone is missing *)
AdminOutcomeUnchecked(type, zone) ==
    [st |-> "fulfilled", val |-> IF zone.found THEN Geom(zone.g) ELSE NullV,
     toast |-> "", letter |-> <<>>]

(* matching.ts 151-155 and 164-182, the resolver after findAdminBoundary     *)
(* answered: [st, val, toast, letter]; st = "pending": the same-letter zones *)
(* are requested next                                                         *)
AdminOutcome(type, zone) ==
    IF ~zone.found
      THEN [st |-> "rejected", val |-> ErrV(NoBoundaryFound), toast |-> ToastNoBoundary,
            letter |-> <<>>]
    ELSE IF type = "zone"
      THEN [st |-> "fulfilled", val |-> Geom(zone.g), toast |-> "", letter |-> <<>>]
    ELSE IF LetterOf(zone).err = NoEnglishName
      THEN [st |-> "rejected", val |-> ErrV(NoEnglishName), toast |-> ToastNoEnglish,
            letter |-> <<>>]
    ELSE IF LetterOf(zone).err # ""
      THEN [st |-> "rejected", val |-> ErrV(LetterOf(zone).err), toast |-> "",
            letter |-> <<>>]
    ELSE [st |-> "pending", val |-> UndefV, toast |-> "", letter |-> LetterOf(zone).letter]

RespondAdmin(i, zone) ==
    /\ ~FlowRunnable
    /\ i \in DOMAIN promises
    /\ promises[i].st = "pending" /\ promises[i].step = "admin"
    /\ LET o == AdminOutcome(promises[i].type, zone)
       IN /\ promises' = [promises EXCEPT
                            ![i].st = o.st, ![i].val = o.val, ![i].toast = o.toast,
                            ![i].letter = o.letter, ![i].answered = TRUE,
                            ![i].zone = zone,
                            ![i].step = IF o.st = "pending" THEN "zones" ELSE "done"]
          /\ toasts' = IF o.toast # "" THEN toasts \cup {o.toast} ELSE toasts
          /\ fetches' = IF o.st = "pending" THEN fetches + 1 ELSE fetches
    /\ UNCHANGED <<ctxVars, matchCache, bufCache, callVars, flowVars>>

(* the same-letter zones arrived: matching.ts 184-212; u is their union *)
RespondZones(i, u) ==
    /\ ~FlowRunnable
    /\ i \in DOMAIN promises
    /\ promises[i].st = "pending" /\ promises[i].step = "zones"
    /\ promises' = Settle(i, "fulfilled", IF u = {} THEN UndefV ELSE Geom(u))
    /\ UNCHANGED <<ctxVars, matchCache, bufCache, fetches, toasts, callVars, flowVars>>

(* findPlacesInZone answered a point-set question:                            *)
(* matching.ts 227-242 with 35-118, part_000 141-233 with 259-265             *)
RespondPlaces(i, data, miss) ==
    /\ ~FlowRunnable
    /\ i \in DOMAIN promises
    /\ promises[i].st = "pending" /\ promises[i].step = "places"
    /\ LET p == promises[i]
           mp == IF p.fam = "matching" THEN MatchingPlaces(p.type, data)
                 ELSE MeasuringPlaces(p.type, data)
           val == IF p.fam = "matching" THEN VoronoiBoundary(mp.points, p.lng, miss)
                  ELSE IF mp.gated THEN ArcBufferToPoint({}, p.lng)
                  ELSE IF mp.points = <<>> THEN ErrV(GeometryError)
                  ELSE ArcBufferToPoint(Range(mp.points), p.lng)
           st == IF val.k = GeometryError THEN "rejected" ELSE "fulfilled"
       IN /\ promises' = [promises EXCEPT ![i].st = st, ![i].val = val,
                                          ![i].step = "done", ![i].points = mp.points,
                                          ![i].answered = TRUE, ![i].data = data,
                                          ![i].toast = mp.toast]
          /\ toasts' = IF mp.toast # "" THEN toasts \cup {mp.toast} ELSE toasts
    /\ UNCHANGED <<ctxVars, matchCache, bufCache, fetches, callVars, flowVars>>

(* fetchCoastline answered: part_000 104-139 with 259-265 *)
RespondCoast(i) ==
    /\ ~FlowRunnable
    /\ i \in DOMAIN promises
    /\ promises[i].st = "pending" /\ promises[i].step = "coast"
    /\ LET r == CoastlineBuffer(promises[i], promises[i].maskRead.g)
       IN promises' = Settle(i, r.st, r.val)
    /\ UNCHANGED <<ctxVars, matchCache, bufCache, fetches, toasts, callVars, flowVars>>

(* the provider request failed: the await throws *)
ProviderError == "ProviderError"
RespondError(i) ==
    /\ ~FlowRunnable
    /\ i \in DOMAIN promises
    /\ promises[i].st = "pending"
    /\ promises' = Settle(i, "rejected", ErrV(ProviderError))
    /\ UNCHANGED <<ctxVars, matchCache, bufCache, fetches, toasts, callVars, flowVars>>

-----------------------------------------------------------------------------
(* The context stores are written by the application *)

SetPolyGeoJSON(p) ==
    /\ ~FlowRunnable
    /\ p # polyGeoJSON
    /\ polyGeoJSON' = p
    /\ UNCHANGED <<mapGeoLocation, mapGeoJSON, hiderMode, cacheVars, callVars, flowVars>>

SetMapGeoLocation(l) ==
    /\ ~FlowRunnable
    /\ l # mapGeoLocation
    /\ mapGeoLocation' = l
    /\ UNCHANGED <<polyGeoJSON, mapGeoJSON, hiderMode, cacheVars, callVars, flowVars>>

SetMapGeoJSON(m) ==
    /\ ~FlowRunnable
    /\ m # mapGeoJSON
    /\ mapGeoJSON' = m
    /\ UNCHANGED <<polyGeoJSON, mapGeoLocation, hiderMode, cacheVars, callVars, flowVars>>

SetHiderMode(h) ==
    /\ ~FlowRunnable
    /\ h # hiderMode
    /\ hiderMode' = h
    /\ UNCHANGED <<polyGeoJSON, mapGeoLocation, mapGeoJSON, cacheVars, callVars, flowVars>>

-----------------------------------------------------------------------------
(* Initial state: the application has started, nothing is drawn, no map is   *)
(* loaded, hider mode is off, both caches are empty.                          *)

HiderOff == [on |-> FALSE, lng |-> 0]
Hider(c) == [on |-> TRUE, lng |-> c]

(* mutant: the test of the hider context is missing *)
HiderModeIsFalseNever(h) == FALSE

(* $hiderMode === false: matching.ts 273-274, part_000 293-294 *)
HiderModeIsFalse(h) == ~h.on

NoQuestion == Descriptor("none", "none", 0, 0, UndefV, FALSE)

(* A feature of a place list: its position, its OSM node number (its id is   *)
(* "node/<number>"), its name properties and, once looked up, its distance   *)
(* to the point of the lookup.  near holds the lookups of a hiderify* run.   *)
Feature(pos, id, name, nameEn) ==
    [pos |-> pos, id |-> id, name |-> name, nameEn |-> nameEn, dist |-> 0]
NoFeature == Feature(0, 0, NoName, NoName)
NoNear == [used |-> FALSE, seeker |-> NoFeature, hider |-> NoFeature, nodes |-> {}]
IdleTask == [op |-> "none", pc |-> "idle", pid |-> 0, mapData |-> NullV,
             mask |-> NullV, hider |-> HiderOff, q0 |-> NoQuestion, attempts |-> 0,
             stored |-> NullV, second |-> FALSE, near |-> NoNear]
NoRun == [op |-> "none", q0 |-> NoQuestion, ret |-> "none", val |-> UndefV,
          path |-> "none", mapData |-> NullV, mask |-> NullV, hider |-> HiderOff,
          boundary |-> UndefV, feature |-> UndefV, out |-> NoQuestion,
          stored |-> NullV, maskAfter |-> NullV, attempts |-> 0, second |-> FALSE,
          pid |-> 0, near |-> NoNear]
NoSignature == [fam |-> "none", type |-> "none", lat |-> 0, lng |-> 0, cat |-> 0,
                geo |-> UndefV, fingerprint |-> NullV]
NoCall == [n |-> 0, pid |-> 0, sig |-> NoSignature, q |-> NoQuestion, mask |-> NullV,
           hit |-> FALSE,
           pendingHit |-> FALSE]

InitCommon ==
    /\ polyGeoJSON = NullV
    /\ mapGeoLocation = Loc(World)
    /\ hiderMode = HiderOff
    /\ promises = <<>>
    /\ matchCache = <<>>
    /\ bufCache = <<>>
    /\ fetches = 0
    /\ toasts = {}
    /\ lastCall = NoCall
    /\ question = NoQuestion
    /\ task = IdleTask
    /\ lastRun = NoRun
    /\ faulty = {}
    /\ sound = {}

-----------------------------------------------------------------------------
(* The caller flows.  question is the descriptor object the flow works on;   *)
(* a flow suspended on a pending promise waits at an await position.         *)
(*                                                                           *)
(* A geometry primitive may throw on a degenerate input.  Whether it does is *)
(* a function of its arguments: faulty holds the calls known to throw, sound *)
(* the calls known to return; the first call with given arguments decides.   *)

PrimitiveCall(prim, a, b, pol, pt) == [prim |-> prim, a |-> a, b |-> b, pol |-> pol, pt |-> pt]
ModifyCall(mapData, boundary, keepInside) ==
    PrimitiveCall("modifyMapData", mapData, boundary, keepInside, 0)
HoledCall(input) == PrimitiveCall("holedMask", input, UndefV, FALSE, 0)
PipCall(pt, feature) == PrimitiveCall("booleanPointInPolygon", feature, UndefV, FALSE, pt)

(* used: the calls made in a step, each with its outcome [c, throws] *)
Made(c, throws) == [c |-> c, throws |-> throws]
Consistent(used) ==
    /\ \A u \in used : IF u.throws THEN u.c \notin sound ELSE u.c \notin faulty
    /\ \A u, v \in used : u.c = v.c => u.throws = v.throws
Remember(used) ==
    /\ faulty' = faulty \cup {u.c : u \in {v \in used : v.throws}}
    /\ sound' = sound \cup {u.c : u \in {v \in used : ~v.throws}}

NewQuestion(q) ==
    /\ task.pc = "idle"
    /\ q # question
    /\ question' = q
    /\ UNCHANGED <<ctxVars, cacheVars, callVars, task, lastRun, faulty, sound>>

ApplyMemo(m) ==
    /\ promises' = m.promises
    /\ matchCache' = m.matchCache
    /\ bufCache' = m.bufCache
    /\ fetches' = m.fetches

(* the flow returns or throws: its outcome is recorded *)
Complete(ret, val, path, boundary, feature, attempts) ==
    /\ task' = IdleTask
    /\ lastRun' = [op |-> task.op, q0 |-> task.q0, ret |-> ret, val |-> val,
                   path |-> path, mapData |-> task.mapData, mask |-> task.mask,
                   hider |-> task.hider, boundary |-> boundary, feature |-> feature,
                   out |-> question', stored |-> task.stored, maskAfter |-> mapGeoJSON',
                   attempts |-> attempts, second |-> task.second, pid |-> task.pid,
                   near |-> task.near]

(* mutant: an undefined boundary is applied as an empty geometry *)
AdjustOutcomeUndefinedAsEmpty(mapData, p, keepInside, failApply) ==
    IF p.st = "rejected" THEN [ret |-> "threw", val |-> p.val, applied |-> FALSE]
    ELSE IF p.val.k = "false" THEN [ret |-> "returned", val |-> mapData, applied |-> FALSE]
    ELSE IF failApply \/ p.val.k \notin {"geom", "undefined"}
      THEN [ret |-> "threw", val |-> ErrV(GeometryError), applied |-> TRUE]
    ELSE [ret |-> "returned", val |-> ModifyMapData(mapData.g, p.val.g, keepInside),
          applied |-> TRUE]

(* mutant: the sentinel false is not recognised and is handed to modifyMapData *)
AdjustOutcomeNoSentinel(mapData, p, keepInside, failApply) ==
    IF p.st = "rejected" THEN [ret |-> "threw", val |-> p.val, applied |-> FALSE]
    ELSE IF failApply \/ p.val.k # "geom"
      THEN [ret |-> "threw", val |-> ErrV(GeometryError), applied |-> TRUE]
    ELSE [ret |-> "returned", val |-> ModifyMapData(mapData.g, p.val.g, keepInside),
          applied |-> TRUE]

(* matching.ts 263-269 and part_000 285-289: adjustPer* after its await.     *)
(* [ret, val, applied]: applied says whether modifyMapData was called;       *)
(* failApply says whether that call throws on a geometry.                     *)
AdjustOutcome(mapData, p, keepInside, failApply) ==
    IF p.st = "rejected" THEN [ret |-> "threw", val |-> p.val, applied |-> FALSE]
    ELSE IF p.val.k = "false" THEN [ret |-> "returned", val |-> mapData, applied |-> FALSE]
    ELSE IF failApply \/ p.val.k # "geom"
      THEN [ret |-> "threw", val |-> ErrV(GeometryError), applied |-> TRUE]
    ELSE [ret |-> "returned", val |-> ModifyMapData(mapData.g, p.val.g, keepInside),
          applied |-> TRUE]

(* the primitive call adjustPer* makes, with its outcome *)
AdjustUsed(mapData, p, keepInside, failApply) ==
    IF p.st = "fulfilled" /\ p.val.k = "geom"
      THEN {Made(ModifyCall(mapData, p.val, keepInside), failApply)}
    ELSE {}

AdjustOp == IF question.fam = "matching" THEN "adjustPerMatching" ELSE "adjustPerMeasuring"
HiderifyOp == IF question.fam = "matching" THEN "hiderifyMatching" ELSE "hiderifyMeasuring"

(* adjustPerMatching / adjustPerMeasuring up to the await: matching.ts 257-263 *)
AdjustCall(mapData, miss) ==
    /\ task.pc = "idle"
    /\ question.fam # "none"
    /\ UNCHANGED <<ctxVars, toasts, callVars, question, faulty, sound>>
    /\ IF mapData.k = "null"
         THEN /\ UNCHANGED <<promises, matchCache, bufCache, fetches>>
              /\ task' = IdleTask
              /\ lastRun' = [NoRun EXCEPT !.op = AdjustOp, !.q0 = question,
                                         !.ret = "returned", !.val = UndefV,
                                         !.path = "nullMapData", !.out = question,
                                         !.stored = mapGeoJSON,
                                         !.maskAfter = mapGeoJSON']
       ELSE LET m == MemoCall(question, miss)
            IN /\ ApplyMemo(m)
               /\ task' = [IdleTask EXCEPT !.op = AdjustOp, !.pc = "awaitAdjust",
                                           !.pid = m.pid, !.mapData = mapData,
                                           !.q0 = question, !.stored = mapGeoJSON]
               /\ lastRun' = lastRun

(* adjustPer* resumes: matching.ts 265-269 *)
AdjustResume(failApply) ==
    /\ task.pc = "awaitAdjust"
    /\ Settled(task.pid)
    /\ UNCHANGED <<ctxVars, cacheVars, callVars, question>>
    /\ LET p == promises[task.pid]
           a == AdjustOutcome(task.mapData, p, Polarity(question), failApply)
           used == AdjustUsed(task.mapData, p, Polarity(question), failApply)
       IN /\ Consistent(used)
          /\ Remember(used)
          /\ Complete(a.ret, a.val, "adjust", p.val, UndefV, IF a.applied THEN 1 ELSE 0)

(* the subtypes whose answer comes from boundary containment: lines 385-411 *)
ContainmentPath(q) ==
    IF q.fam = "matching" THEN q.type \notin NoBoundaryMatching
    ELSE q.type \notin (CategoryZones \cup {"mcdonalds", "seven11", "rail-measure"})

(* history: this run of hiderify* is applied to the descriptor the previous  *)
(* run of hiderify* returned, in the context of that run                     *)
SecondApplication ==
    /\ lastRun.op = HiderifyOp
    /\ lastRun.ret = "returned"
    /\ lastRun.out = question
    /\ lastRun.hider = hiderMode
    /\ lastRun.stored = mapGeoJSON

(* hiderify*: lines 272-276 and 385-391, up to the await of the first attempt *)
HiderifyCall(miss) ==
    /\ task.pc = "idle"
    /\ question.fam # "none"
    /\ ContainmentPath(question)
    /\ UNCHANGED <<ctxVars, toasts, callVars, question, faulty, sound>>
    /\ LET started == [IdleTask EXCEPT !.op = HiderifyOp, !.q0 = question,
                                       !.hider = hiderMode, !.stored = mapGeoJSON,
                                       !.second = SecondApplication]
       IN IF HiderModeIsFalse(hiderMode) \/ mapGeoJSON.k = "null"
            THEN /\ UNCHANGED <<promises, matchCache, bufCache, fetches>>
                 /\ task' = IdleTask
                 /\ lastRun' = [NoRun EXCEPT
                        !.op = HiderifyOp, !.q0 = question, !.ret = "returned",
                        !.path = IF HiderModeIsFalse(hiderMode) THEN "hiderOff"
                                 ELSE "nullMask",
                        !.out = question, !.hider = hiderMode, !.mask = mapGeoJSON,
                        !.stored = mapGeoJSON, !.maskAfter = mapGeoJSON',
                        !.second = SecondApplication]
          ELSE LET m == MemoCall(question, miss)
               IN /\ ApplyMemo(m)
                  /\ task' = [started EXCEPT !.pc = "await1", !.pid = m.pid,
                                             !.mapData = mapGeoJSON, !.mask = mapGeoJSON]
                  /\ lastRun' = lastRun

(* lines 403-411: the containment test and the flip.  failPip says whether   *)
(* booleanPointInPolygon throws; used are the primitive calls made before.   *)
TestAndFlip(feature, path, boundary, attempts, failPip, used) ==
    IF feature.k \in {"null", "undefined"}
      THEN /\ question' = question
           /\ Consistent(used)
           /\ Remember(used)
           /\ Complete("returned", UndefV, "noFeature", boundary, feature, attempts)
    ELSE LET all == used \cup {Made(PipCall(task.hider.lng, feature), failPip)}
         IN /\ Consistent(all)
            /\ Remember(all)
            /\ IF failPip
                 THEN /\ question' = question
                      /\ Complete("threw", ErrV(GeometryError), path, boundary, feature,
                                  attempts)
               ELSE /\ question' = IF BooleanPointInPolygon(task.hider.lng, feature.g)
                                   THEN FlipPolarity(question) ELSE question
                    /\ Complete("returned", UndefV, path, boundary, feature, attempts)

(* lines 390-397: the first attempt resumes; when it fails the second attempt *)
(* is started with the holed working mask as map data                         *)
HiderifyResume1(failApply, failHoled, failPip, miss) ==
    /\ task.pc = "await1"
    /\ Settled(task.pid)
    /\ UNCHANGED <<ctxVars, toasts, callVars>>
    /\ LET p == promises[task.pid]
           a == AdjustOutcome(task.mapData, p, Polarity(question), failApply)
           n == IF a.applied THEN 1 ELSE 0
           inverted == a.ret = "returned" /\ a.val.k = "geom"
           firstOk == inverted /\ ~failHoled.first
           used1 == AdjustUsed(task.mapData, p, Polarity(question), failApply)
                    \cup (IF inverted THEN {Made(HoledCall(a.val), failHoled.first)}
                          ELSE {})
           used2 == used1 \cup {Made(HoledCall(task.mask), failHoled.second)}
       IN IF firstOk
            THEN /\ UNCHANGED cacheVars
                 /\ TestAndFlip(Geom(HoledMask(a.val.g)), "first", p.val, n, failPip, used1)
          ELSE IF failHoled.second
            THEN /\ UNCHANGED <<cacheVars, question>>
                 /\ Consistent(used2)
                 /\ Remember(used2)
                 /\ Complete("returned", UndefV, "bothFailed", p.val, UndefV, n)
          ELSE LET m == MemoCall(question, miss)
               IN /\ ApplyMemo(m)
                  /\ Consistent(used2)
                  /\ Remember(used2)
                  /\ toasts' = toasts
                  /\ question' = question
                  /\ lastRun' = lastRun
                  /\ task' = [task EXCEPT !.pc = "await2", !.pid = m.pid,
                                          !.mapData = Geom(HoledMask(task.mask.g)),
                                          !.attempts = n]

(* lines 394-411: the second attempt resumes *)
HiderifyResume2(failApply, failPip) ==
    /\ task.pc = "await2"
    /\ Settled(task.pid)
    /\ UNCHANGED <<ctxVars, cacheVars, callVars>>
    /\ LET p == promises[task.pid]
           a == AdjustOutcome(task.mapData, p, Polarity(question), failApply)
           n == task.attempts + IF a.applied THEN 1 ELSE 0
           used == AdjustUsed(task.mapData, p, Polarity(question), failApply)
       IN IF a.ret = "threw"
            THEN /\ question' = question
                 /\ Consistent(used)
                 /\ Remember(used)
                 /\ Complete("returned", UndefV, "bothFailed", p.val, UndefV, n)
          ELSE TestAndFlip(a.val, "retry", p.val, n, failPip, used)

-----------------------------------------------------------------------------
(* The nearest-feature branches of hiderify*: matching.ts 278-383 and        *)
(* part_000 298-383.                                                          *)

(* turf.nearestPoint on a non-empty list: the first feature at the smallest  *)
(* distance, with that distance                                               *)
NearestPoint(pt, places) ==
    LET d == Min({Abs(pt - places[i].pos) : i \in DOMAIN places})
        i == Min({j \in DOMAIN places : Abs(pt - places[j].pos) = d})
    IN [places[i] EXCEPT !.dist = d]

(* nearestToQuestion: the nearest feature of the category, with              *)
(* properties.name and properties.distanceToPoint                             *)
NearestToQuestion(pt, places) == NearestPoint(pt, places)

(* properties.id of a station and parseInt(id.split("/")[1]) *)
StationId(f) == <<"node", f.id>>
ParseNodeId(id) == id[2]

(* properties["name:en"] || properties.name *)
EnglishOrName(f) == IF ~Falsy(f.nameEn) THEN f.nameEn ELSE f.name

(* matching.ts 301-302 *)
CategorySame(seekerNearest, hiderNearest) == seekerNearest.name = hiderNearest.name

(* part_000 324-326, 357 and 381 *)
CategoryCloser(seekerNearest, hiderNearest) == seekerNearest.dist > hiderNearest.dist
DistanceCloser(seekerNearest, hiderNearest) == hiderNearest.dist < seekerNearest.dist

(* mutant: the hider's own station is always on the line *)
TrainLineSameSeekerToo(seekerNearest, hiderNearest, nodes) ==
    ParseNodeId(StationId(hiderNearest)) \in nodes \cup {seekerNearest.id, hiderNearest.id}

(* matching.ts 341-349 *)
TrainLineSame(seekerNearest, hiderNearest, nodes) ==
    ParseNodeId(StationId(hiderNearest)) \in nodes

(* matching.ts 363-371 *)
FirstLetterSame(hiderName, seekerName) ==
    ToUpperCase(hiderName.s[1]) = ToUpperCase(seekerName.s[1])

(* mutant: the comparison is made from the seeker's side *)
LengthComparisonSwapped(hiderName, seekerName) ==
    IF Len(hiderName.s) = Len(seekerName.s) THEN "same"
    ELSE IF Len(seekerName.s) < Len(hiderName.s) THEN "shorter"
    ELSE "longer"

(* matching.ts 372-380 *)
LengthComparison(hiderName, seekerName) ==
    IF Len(hiderName.s) = Len(seekerName.s) THEN "same"
    ELSE IF Len(hiderName.s) < Len(seekerName.s) THEN "shorter"
    ELSE "longer"

(* matching.ts 311-383, the station branch once the stations are known:      *)
(* [ret, path, out]                                                           *)
StationAnswer(q, seekerNearest, hiderNearest, nodes) ==
    LET q1 == IF q.type = "same-train-line"
                THEN [q EXCEPT !.same = TrainLineSame(seekerNearest, hiderNearest, nodes)]
              ELSE q
        hiderName == EnglishOrName(hiderNearest)
        seekerName == EnglishOrName(seekerNearest)
    IN IF Falsy(hiderName) \/ Falsy(seekerName)
         THEN [ret |-> "returned", path |-> "noName", out |-> q1]
       ELSE IF q.type = "same-first-letter-station"
         THEN [ret |-> "returned", path |-> "nearest",
               out |-> [q1 EXCEPT !.same = FirstLetterSame(hiderName, seekerName)]]
       ELSE IF q.type = "same-length-station"
         THEN [ret |-> "returned", path |-> "nearest",
               out |-> [q1 EXCEPT !.lengthComparison =
                                     LengthComparison(hiderName, seekerName)]]
       ELSE [ret |-> "returned", path |-> "nearest", out |-> q1]

(* the branches that return from their own block: [ret, path, out, near]     *)
NearestAnswer(q, hider, places, nodes) ==
    IF places = <<>>
      THEN [ret |-> "threw", path |-> "noPlaces", out |-> q, near |-> NoNear]
    ELSE LET sN == NearestPoint(q.lng, places)
             hN == NearestPoint(hider.lng, places)
             near == [used |-> TRUE, seeker |-> sN, hider |-> hN,
                      nodes |-> IF q.type = "same-train-line" THEN nodes ELSE {}]
         IN IF q.type \in StationTypes
              THEN LET a == StationAnswer(q, sN, hN, nodes)
                   IN [ret |-> a.ret, path |-> a.path, out |-> a.out, near |-> near]
            ELSE IF q.type \in CategoryZones /\ q.fam = "matching"
              THEN [ret |-> "returned", path |-> "nearest", near |-> near,
                    out |-> [q EXCEPT !.same =
                               CategorySame(NearestToQuestion(q.lng, places),
                                            NearestToQuestion(hider.lng, places))]]
            ELSE IF q.type \in CategoryZones
              THEN [ret |-> "returned", path |-> "nearest", near |-> near,
                    out |-> [q EXCEPT !.hiderCloser =
                               CategoryCloser(NearestToQuestion(q.lng, places),
                                              NearestToQuestion(hider.lng, places))]]
            ELSE [ret |-> "returned", path |-> "nearest", near |-> near,
                  out |-> [q EXCEPT !.hiderCloser = DistanceCloser(sN, hN)]]

(* hiderify* on a subtype answered from nearest features; places is what the *)
(* provider (nearestToQuestion's category, the stations, the chain's places) *)
(* holds, nodes the answer of trainLineNodeFinder                             *)
HiderifyNearest(places, nodes) ==
    /\ task.pc = "idle"
    /\ question.fam # "none"
    /\ ~ContainmentPath(question)
    /\ question.type # "rail-measure"
    /\ question.type \in CategoryZones => places # <<>>
    /\ question.type # "same-train-line" => nodes = {}
    /\ UNCHANGED <<ctxVars, cacheVars, callVars, task, faulty, sound>>
    /\ LET a == IF HiderModeIsFalse(hiderMode)
                  THEN [ret |-> "returned", path |-> "hiderOff", out |-> question,
                        near |-> NoNear]
                ELSE NearestAnswer(question, hiderMode, places, nodes)
       IN /\ question' = a.out
          /\ lastRun' = [NoRun EXCEPT
                 !.op = HiderifyOp, !.q0 = question, !.ret = a.ret,
                 !.val = IF a.ret = "threw" THEN ErrV(TypeError) ELSE UndefV,
                 !.path = a.path, !.out = a.out, !.hider = hiderMode,
                 !.mask = mapGeoJSON, !.stored = mapGeoJSON, !.maskAfter = mapGeoJSON,
                 !.second = SecondApplication, !.near = a.near]

(* hiderifyMeasuring on rail-measure, part_000 332-358 and on to 385-391:    *)
(* stations is the trainStations store                                        *)
HiderifyRail(stations, miss) ==
    /\ task.pc = "idle"
    /\ question.fam = "measuring"
    /\ question.type = "rail-measure"
    /\ UNCHANGED <<ctxVars, toasts, callVars, faulty, sound>>
    /\ LET sN == NearestPoint(question.lng, stations)
           hN == NearestPoint(hiderMode.lng, stations)
           near == [used |-> TRUE, seeker |-> sN, hider |-> hN, nodes |-> {}]
           q1 == [question EXCEPT !.hiderCloser = DistanceCloser(sN, hN)]
           early == [NoRun EXCEPT
                        !.op = HiderifyOp, !.q0 = question, !.ret = "returned",
                        !.out = question, !.hider = hiderMode, !.mask = mapGeoJSON,
                        !.stored = mapGeoJSON, !.maskAfter = mapGeoJSON,
                        !.second = SecondApplication]
       IN IF HiderModeIsFalse(hiderMode) \/ stations = <<>>
            THEN /\ UNCHANGED <<promises, matchCache, bufCache, fetches, task, question>>
                 /\ lastRun' = [early EXCEPT
                        !.path = IF HiderModeIsFalse(hiderMode) THEN "hiderOff"
                                 ELSE "noStations"]
          ELSE IF mapGeoJSON.k = "null"
            THEN /\ UNCHANGED <<promises, matchCache, bufCache, fetches, task>>
                 /\ question' = q1
                 /\ lastRun' = [early EXCEPT !.path = "nullMask", !.out = q1,
                                             !.near = near]
          ELSE LET m == MemoCall(q1, miss)
               IN /\ ApplyMemo(m)
                  /\ question' = q1
                  /\ lastRun' = lastRun
                  /\ task' = [IdleTask EXCEPT
                         !.op = HiderifyOp, !.pc = "await1", !.pid = m.pid,
                         !.q0 = question, !.hider = hiderMode, !.stored = mapGeoJSON,
                         !.second = SecondApplication, !.mapData = mapGeoJSON,
                         !.mask = mapGeoJSON, !.near = near]

-----------------------------------------------------------------------------
(* matchingPlanningPolygon / measuringPlanningPolygon: matching.ts 414-426,  *)
(* part_000 414-424.                                                          *)

(* turf.polygonToLine: the outline of a region *)
Line(region) == V("line", region)
LineCall(boundary) == PrimitiveCall("polygonToLine", boundary, UndefV, FALSE, 0)

(* mutant: the try / catch is missing *)
PlanningOutcomeUncaught(p, failLine) ==
    IF p.st = "rejected" THEN [ret |-> "threw", val |-> p.val]
    ELSE IF p.val.k = "false" THEN [ret |-> "returned", val |-> FalseV]
    ELSE IF failLine \/ p.val.k # "geom"
      THEN [ret |-> "threw", val |-> ErrV(GeometryError)]
    ELSE [ret |-> "returned", val |-> Line(p.val.g)]

(* the body of the try after the await, with its catch: failLine says whether *)
(* polygonToLine throws on a geometry                                         *)
PlanningOutcome(p, failLine) ==
    IF p.st = "rejected" THEN [ret |-> "returned", val |-> FalseV]
    ELSE IF p.val.k = "false" THEN [ret |-> "returned", val |-> FalseV]
    ELSE IF failLine \/ p.val.k # "geom" THEN [ret |-> "returned", val |-> FalseV]
    ELSE [ret |-> "returned", val |-> Line(p.val.g)]

PlanningOp == IF question.fam = "matching" THEN "matchingPlanningPolygon"
              ELSE "measuringPlanningPolygon"

(* up to the await of the resolver *)
PlanningCall(miss) ==
    /\ task.pc = "idle"
    /\ question.fam # "none"
    /\ UNCHANGED <<ctxVars, toasts, callVars, question, lastRun, faulty, sound>>
    /\ LET m == MemoCall(question, miss)
       IN /\ ApplyMemo(m)
          /\ task' = [IdleTask EXCEPT !.op = PlanningOp, !.pc = "awaitPlanning",
                                      !.pid = m.pid, !.q0 = question,
                                      !.stored = mapGeoJSON]

PlanningResume(failLine) ==
    /\ task.pc = "awaitPlanning"
    /\ Settled(task.pid)
    /\ UNCHANGED <<ctxVars, cacheVars, callVars, question>>
    /\ LET p == promises[task.pid]
           o == PlanningOutcome(p, failLine)
           used == IF p.st = "fulfilled" /\ p.val.k = "geom"
                     THEN {Made(LineCall(p.val), failLine)} ELSE {}
       IN /\ Consistent(used)
          /\ Remember(used)
          /\ Complete(o.ret, o.val, "planning", p.val, UndefV, 0)

-----------------------------------------------------------------------------
(* SpecCache: resolver calls interleaved with provider answers and context   *)
(* changes.                                                                   *)

AdminLevel == 2

CacheQuestions ==
    {Descriptor("matching", "zone", 1, AdminLevel, UndefV, b) : b \in BOOLEAN}
    \cup {Descriptor("measuring", "coastline", 2, 0, UndefV, TRUE),
          Descriptor("measuring", "airport", 1, 0, UndefV, TRUE)}

CacheZones == {NoZone, Zone({1}, NoName, NoName)}
CacheData == {[remark |-> NoRemark, elements |-> <<Element(0, NumCells, "AAA")>>]}
CacheMasks == {Geom(World), Geom({1, 2})}
CachePolys == {NullV, Geom({1})}

InitCache == InitCommon /\ mapGeoJSON = Geom(World)

NextCache ==
    \/ \E q \in CacheQuestions : CallResolver(q, FALSE)
    \/ \E i \in 1..MaxCalls, z \in CacheZones : RespondAdmin(i, z)
    \/ \E i \in 1..MaxCalls, d \in CacheData : RespondPlaces(i, d, FALSE)
    \/ \E i \in 1..MaxCalls : RespondCoast(i)
    \/ \E i \in 1..MaxCalls : RespondError(i)
    \/ \E p \in CachePolys : SetPolyGeoJSON(p)
    \/ \E m \in CacheMasks : SetMapGeoJSON(m)

SpecCache == InitCache /\ [][NextCache]_vars

-----------------------------------------------------------------------------
(* SpecAdjust and SpecHider: adjustPer* and hiderify* on one question, in a  *)
(* fixed context.  The context and the question's signature are those of     *)
(* some moment of the game; the polarity of the descriptor may be set anew   *)
(* between two flows.                                                         *)

NonEmptyRegions == Regions \ {{}}
WithPolarity(q, b) == [q EXCEPT !.same = b, !.hiderCloser = b]

FlowZones == {NoZone, Zone({1, 2}, NoName, NoName)}
FlowData == {[remark |-> NoRemark, elements |-> <<>>],
             [remark |-> NoRemark,
              elements |-> <<Element(0, 1, "AAA"), Element(NumCells, 1, "BBB")>>]}
FailHoled == [first : BOOLEAN, second : BOOLEAN]

InitFlow(signatures, masks, hiders) ==
    /\ polyGeoJSON = NullV
    /\ mapGeoLocation = Loc(World)
    /\ mapGeoJSON \in masks
    /\ hiderMode \in hiders
    /\ promises = <<>>
    /\ matchCache = <<>>
    /\ bufCache = <<>>
    /\ fetches = 0
    /\ toasts = {}
    /\ lastCall = NoCall
    /\ question \in {WithPolarity(q, b) : q \in signatures, b \in BOOLEAN}
    /\ task = IdleTask
    /\ lastRun = NoRun
    /\ faulty = {}
    /\ sound = {}

AdjustSignatures ==
    {Descriptor("matching", "custom-zone", 1, 0, g, TRUE) :
        g \in {UndefV, Geom({1}), Geom(World)}}
    \cup {Descriptor("matching", "zone", 1, AdminLevel, UndefV, TRUE),
          Descriptor("matching", "airport", 1, 0, UndefV, TRUE),
          Descriptor("matching", "park", 1, 0, UndefV, TRUE),
          Descriptor("measuring", "custom-measure", 1, 0, Geom({NumCells}), TRUE),
          Descriptor("measuring", "airport", 1, 0, UndefV, TRUE),
          Descriptor("measuring", "mcdonalds", 1, 0, UndefV, TRUE)}

AdjustMasks == {NullV} \cup {Geom(r) : r \in NonEmptyRegions}

InitAdjust == InitFlow(AdjustSignatures, AdjustMasks, {HiderOff})

NextAdjust ==
    \/ \E b \in BOOLEAN : NewQuestion(WithPolarity(question, b))
    \/ \E miss \in BOOLEAN : AdjustCall(mapGeoJSON, miss)
    \/ \E f \in BOOLEAN : AdjustResume(f)
    \/ \E i \in 1..MaxCalls, z \in FlowZones : RespondAdmin(i, z)
    \/ \E i \in 1..MaxCalls, d \in FlowData, miss \in BOOLEAN : RespondPlaces(i, d, miss)
    \/ \E i \in 1..MaxCalls : RespondError(i)

SpecAdjust == InitAdjust /\ [][NextAdjust]_vars

HiderSignatures ==
    {Descriptor("matching", "custom-zone", 1, 0, g, TRUE) :
        g \in {UndefV} \cup {Geom(r) : r \in NonEmptyRegions}}
    \cup {Descriptor("measuring", "custom-measure", c, 0, Geom({NumCells}), TRUE) :
            c \in World}
    \cup {Descriptor("matching", "zone", 1, AdminLevel, UndefV, TRUE),
          Descriptor("measuring", "airport", 1, 0, UndefV, TRUE)}

HiderMasks == {NullV, Geom(World), Geom({1, 2}), Geom({NumCells})}
HiderModes == {HiderOff} \cup {Hider(c) : c \in World}

InitHider == InitFlow(HiderSignatures, HiderMasks, HiderModes)

NextHider ==
    \/ \E b \in BOOLEAN : NewQuestion(WithPolarity(question, b))
    \/ \E miss \in BOOLEAN : HiderifyCall(miss)
    \/ \E fa \in BOOLEAN, fh \in FailHoled, fp \in BOOLEAN, miss \in BOOLEAN :
          HiderifyResume1(fa, fh, fp, miss)
    \/ \E fa \in BOOLEAN, fp \in BOOLEAN : HiderifyResume2(fa, fp)
    \/ \E i \in 1..MaxCalls, z \in FlowZones : RespondAdmin(i, z)
    \/ \E i \in 1..MaxCalls, d \in FlowData, miss \in BOOLEAN : RespondPlaces(i, d, miss)
    \/ \E i \in 1..MaxCalls : RespondError(i)

SpecHider == InitHider /\ [][NextHider]_vars

-----------------------------------------------------------------------------
(* SpecLetter: letter-zone questions, the administrative lookup answering    *)
(* with zones of every kind of name.                                          *)

LetterNames == {NoName, Name(<<>>), Name(<<"f", "r">>), Name(<<"F">>),
                Name(<<"e_acute", "i">>), Name(<<"sharp_s">>), Name(<<"6">>)}
LetterZones == {NoZone} \cup {Zone({1}, en, n) : en \in LetterNames, n \in LetterNames}
LetterQuestions == {Descriptor("matching", "letter-zone", c, AdminLevel, UndefV, TRUE) :
                       c \in {1, NumCells}}
LetterUnions == {{}, {1}, {1, 2}}

NextLetter ==
    \/ \E q \in LetterQuestions : CallResolver(q, FALSE)
    \/ \E i \in 1..MaxCalls, z \in LetterZones : RespondAdmin(i, z)
    \/ \E i \in 1..MaxCalls, u \in LetterUnions : RespondZones(i, u)
    \/ \E i \in 1..MaxCalls : RespondError(i)

SpecLetter == InitCache /\ [][NextLetter]_vars

-----------------------------------------------------------------------------
(* SpecGate: questions of the "-full" subtypes in both families, the         *)
(* provider answering around the element cap, with and without a remark.     *)

GateElement(i) ==
    Element(IF i % 2 = 0 THEN 0 ELSE 1 + (i % NumCells), 1 + ((i + 1) % NumCells), "")
GateElements(n) == [i \in 1..n |-> GateElement(i)]
GateCounts == {0, 1, 2, ElementCap - 1, ElementCap, ElementCap + 1}
GateRemarks == {Name(<<>>), Name(RuntimeErrorMarker),
                Name(RuntimeErrorMarker \o <<":", " ", "x">>),
                Name(<<" ">> \o RuntimeErrorMarker),
                Name(<<"R">> \o Tail(RuntimeErrorMarker)),
                Name(SubSeq(RuntimeErrorMarker, 1, Len(RuntimeErrorMarker) - 1))}
GateData ==
    {[remark |-> NoRemark, elements |-> GateElements(n)] : n \in GateCounts}
    \cup {[remark |-> r, elements |-> GateElements(n)] :
             r \in GateRemarks, n \in {1, ElementCap}}
GateQuestions == {Descriptor("matching", "museum-full", 1, 0, UndefV, TRUE),
                  Descriptor("matching", "park-full", NumCells, 0, UndefV, TRUE),
                  Descriptor("measuring", "museum-full", 1, 0, UndefV, TRUE)}

NextGate ==
    \/ \E q \in GateQuestions : CallResolver(q, FALSE)
    \/ \E i \in 1..MaxCalls, d \in GateData, miss \in BOOLEAN : RespondPlaces(i, d, miss)
    \/ \E i \in 1..MaxCalls : RespondError(i)

SpecGate == InitCache /\ [][NextGate]_vars

-----------------------------------------------------------------------------
(* SpecAirport: the airport questions of both families, the provider         *)
(* answering with elements that share IATA codes.                             *)

AirportElements == {Element(0, 1, "AAA"), Element(2, 1, "AAA"),
                    Element(0, NumCells, "BBB"), Element(NumCells, 2, "BBB")}
AirportLists ==
    {<<>>} \cup {<<a>> : a \in AirportElements}
           \cup {<<a, b>> : a \in AirportElements, b \in AirportElements}
           \cup {<<a, b, c>> : a \in AirportElements, b \in AirportElements,
                               c \in AirportElements}
AirportData == {[remark |-> NoRemark, elements |-> l] : l \in AirportLists}
AirportQuestions == {Descriptor("matching", "airport", 1, 0, UndefV, TRUE),
                     Descriptor("measuring", "airport", 1, 0, UndefV, TRUE)}

NextAirport ==
    \/ \E q \in AirportQuestions : CallResolver(q, FALSE)
    \/ \E i \in 1..MaxCalls, d \in AirportData : RespondPlaces(i, d, FALSE)
    \/ \E i \in 1..MaxCalls : RespondError(i)

SpecAirport == InitCache /\ [][NextAirport]_vars

-----------------------------------------------------------------------------
(* SpecPlanning: the planning polygons of questions of every kind of         *)
(* resolution.                                                                *)

PlanningSignatures ==
    {Descriptor("matching", t, 1, AdminLevel, UndefV, TRUE) : t \in {"zone", "letter-zone"}}
    \cup {Descriptor("matching", "custom-zone", 1, 0, Geom({1}), TRUE),
          Descriptor("matching", "custom-points", 1, 0, PointsV({1, NumCells}), TRUE),
          Descriptor("matching", "airport", 1, 0, UndefV, TRUE),
          Descriptor("matching", "park", 1, 0, UndefV, TRUE),
          Descriptor("measuring", "airport", 1, 0, UndefV, TRUE),
          Descriptor("measuring", "coastline", 2, 0, UndefV, TRUE),
          Descriptor("measuring", "mcdonalds", 1, 0, UndefV, TRUE)}
PlanningZones == {NoZone, Zone({1, 2}, Name(<<"f", "r">>), NoName),
                  Zone({1}, NoName, Name(<<"6">>))}
PlanningData == FlowData
                \cup {[remark |-> Name(RuntimeErrorMarker), elements |-> <<Element(0, 1, "AAA")>>]}

InitPlanning == InitFlow(PlanningSignatures, {Geom(World)}, {HiderOff})

NextPlanning ==
    \/ \E miss \in BOOLEAN : PlanningCall(miss)
    \/ \E f \in BOOLEAN : PlanningResume(f)
    \/ \E i \in 1..MaxCalls, z \in PlanningZones : RespondAdmin(i, z)
    \/ \E i \in 1..MaxCalls, u \in LetterUnions : RespondZones(i, u)
    \/ \E i \in 1..MaxCalls, d \in PlanningData, miss \in BOOLEAN : RespondPlaces(i, d, miss)
    \/ \E i \in 1..MaxCalls : RespondCoast(i)
    \/ \E i \in 1..MaxCalls : RespondError(i)

SpecPlanning == InitPlanning /\ [][NextPlanning]_vars

-----------------------------------------------------------------------------
(* SpecNearest: hiderify* on the subtypes without a boundary, over place     *)
(* lists with shared names, missing names and features at equal distance.    *)

NearestFeatures ==
    {Feature(1, 1, Name(<<"a", "b">>), NoName),
     Feature(NumCells, 2, Name(<<"a", "b">>), NoName),
     Feature(NumCells, 3, Name(<<"e_acute", "t", "e">>), Name(<<"A">>)),
     Feature(2, 4, NoName, NoName)}
NearestPlaces ==
    {<<>>} \cup {<<a>> : a \in NearestFeatures}
           \cup {pl \in NearestFeatures \X NearestFeatures : pl[1] # pl[2]}
NearestNodes == SUBSET {1, 2}
NearestSignatures ==
    {Descriptor("matching", t, 1, 0, UndefV, TRUE) :
        t \in {"museum", "same-first-letter-station", "same-length-station",
               "same-train-line"}}
    \cup {Descriptor("measuring", t, 1, 0, UndefV, TRUE) :
            t \in {"park", "rail-measure", "mcdonalds"}}
NearestMasks == {NullV, Geom(World), Geom({1, 2})}
NoFault == [first |-> FALSE, second |-> FALSE]

InitNearest == InitFlow(NearestSignatures, NearestMasks, HiderModes)

NextNearest ==
    \/ \E pl \in NearestPlaces, n \in NearestNodes : HiderifyNearest(pl, n)
    \/ \E st \in NearestPlaces : HiderifyRail(st, FALSE)
    \/ HiderifyResume1(FALSE, NoFault, FALSE, FALSE)

SpecNearest == InitNearest /\ [][NextNearest]_vars

-----------------------------------------------------------------------------
(* SpecNoCell: adjustPerMatching and hiderifyMatching on point-set           *)
(* questions, the tessellation giving or missing the cell of the question.   *)

NoCellSignatures ==
    {Descriptor("matching", "airport", 1, 0, UndefV, TRUE),
     Descriptor("matching", "museum-full", 1, 0, UndefV, TRUE),
     Descriptor("matching", "custom-points", 1, 0, PointsV({1, NumCells}), TRUE)}
NoCellMasks == {Geom(World), Geom({1, 2})}
NoCellHiders == {Hider(1), Hider(NumCells)}

InitNoCell == InitFlow(NoCellSignatures, NoCellMasks, NoCellHiders)

NextNoCell ==
    \/ \E miss \in BOOLEAN : AdjustCall(mapGeoJSON, miss)
    \/ \E f \in BOOLEAN : AdjustResume(f)
    \/ \E miss \in BOOLEAN : HiderifyCall(miss)
    \/ \E fa \in BOOLEAN, fh \in FailHoled, fp \in BOOLEAN, miss \in BOOLEAN :
          HiderifyResume1(fa, fh, fp, miss)
    \/ \E fa \in BOOLEAN, fp \in BOOLEAN : HiderifyResume2(fa, fp)
    \/ \E i \in 1..MaxCalls, d \in PlanningData, miss \in BOOLEAN : RespondPlaces(i, d, miss)

SpecNoCell == InitNoCell /\ [][NextNoCell]_vars

-----------------------------------------------------------------------------
(* SpecKey: resolver calls with descriptors that agree or differ in single   *)
(* fields of the signature, in outcome fields and in the property order of   *)
(* their geometry; the drawn polygon changes in between.                     *)

KeyQuestions ==
    {WithOrder(Descriptor("matching", "custom-zone", 1, 0, Geom(r), b), o) :
        r \in {{1}, {1, 2}}, b \in BOOLEAN, o \in {1, 2}}
    \cup {Descriptor("matching", "zone", c, l, UndefV, b) :
            c \in {1, 2}, l \in {AdminLevel, AdminLevel + 1}, b \in BOOLEAN}
    \cup {[Descriptor("matching", "same-length-station", 1, 0, UndefV, TRUE)
             EXCEPT !.lengthComparison = lc] : lc \in {"same", "longer"}}
    \cup {WithOrder(Descriptor("measuring", t, 1, 0, Geom({NumCells}), b), o) :
            t \in {"custom-measure"}, b \in BOOLEAN, o \in {1, 2}}
    \cup {Descriptor("measuring", "mcdonalds", 1, 0, UndefV, TRUE)}

NextKey ==
    \/ \E q \in KeyQuestions : CallResolver(q, FALSE)
    \/ \E i \in 1..MaxCalls, z \in CacheZones : RespondAdmin(i, z)
    \/ \E p \in CachePolys : SetPolyGeoJSON(p)

SpecKey == InitCache /\ [][NextKey]_vars

-----------------------------------------------------------------------------
(* SpecFail: resolver calls whose resolutions fail or are aborted by the     *)
(* safety gate, with the working mask absent or present.                     *)

FailQuestions ==
    {Descriptor("matching", t, 1, AdminLevel, UndefV, TRUE) : t \in {"zone", "letter-zone"}}
    \cup {Descriptor("matching", "museum-full", 1, 0, UndefV, b) : b \in BOOLEAN}
    \cup {Descriptor("measuring", "museum-full", 1, 0, UndefV, TRUE),
          Descriptor("measuring", "airport", 1, 0, UndefV, TRUE)}
FailZones == {NoZone, Zone({1}, NoName, Name(<<"6">>))}
FailMasks == {NullV, Geom(World)}

NextFail ==
    \/ \E q \in FailQuestions : CallResolver(q, FALSE)
    \/ \E i \in 1..MaxCalls, z \in FailZones : RespondAdmin(i, z)
    \/ \E i \in 1..MaxCalls, d \in PlanningData : RespondPlaces(i, d, FALSE)
    \/ \E i \in 1..MaxCalls : RespondError(i)
    \/ \E m \in FailMasks : SetMapGeoJSON(m)

SpecFail == InitCache /\ [][NextFail]_vars

-----------------------------------------------------------------------------
(* SpecHiderOff: hiderify* while the application switches hider mode on and  *)
(* off, so that a call with hider mode off finds caches an earlier call with *)
(* hider mode on has filled.                                                  *)

OffSignatures ==
    {Descriptor("matching", "custom-zone", 1, 0, Geom({1, 2}), TRUE),
     Descriptor("matching", "zone", 1, AdminLevel, UndefV, TRUE),
     Descriptor("matching", "museum", 1, 0, UndefV, TRUE),
     Descriptor("measuring", "custom-measure", 1, 0, Geom({NumCells}), TRUE),
     Descriptor("measuring", "rail-measure", 1, 0, UndefV, TRUE)}
OffMasks == {NullV, Geom({1, 2})}
OffModes == {HiderOff, Hider(1), Hider(NumCells)}
OffPlaces == {<<>>, <<Feature(1, 1, Name(<<"a", "b">>), NoName)>>,
              <<Feature(NumCells, 2, Name(<<"a", "b">>), NoName)>>}

InitHiderOff == InitFlow(OffSignatures, OffMasks, OffModes)

NextHiderOff ==
    \/ \E h \in OffModes : SetHiderMode(h)
    \/ \E miss \in BOOLEAN : HiderifyCall(miss)
    \/ \E pl \in OffPlaces : HiderifyNearest(pl, {})
    \/ \E st \in OffPlaces : HiderifyRail(st, FALSE)
    \/ \E miss \in BOOLEAN : HiderifyResume1(FALSE, NoFault, FALSE, miss)
    \/ HiderifyResume2(FALSE, FALSE)
    \/ \E i \in 1..MaxCalls, z \in FlowZones : RespondAdmin(i, z)
    \/ \E i \in 1..MaxCalls : RespondError(i)

SpecHiderOff == InitHiderOff /\ [][NextHiderOff]_vars

-----------------------------------------------------------------------------
(* Properties *)

PromiseSignature(p) ==
    [fam |-> p.fam, type |-> p.type, lat |-> p.lat, lng |-> p.lng, cat |-> p.cat,
     geo |-> p.geo, fingerprint |-> p.fingerprint]

EarlierWithSignature(sig) ==
    {i \in DOMAIN promises : PromiseSignature(promises[i]) = sig}

(* C1: a resolver call whose canonical signature equals that of an earlier   *)
(* call returns the promise made for the earlier call, creates no promise    *)
(* (no resolution, no geometry) and issues no provider request.              *)
C1_RepeatedCallIsServedFromCache ==
    [][(lastCall'.n = lastCall.n + 1 /\ EarlierWithSignature(lastCall'.sig) # {})
        => /\ promises' = promises
           /\ fetches' = fetches
           /\ lastCall'.pid \in EarlierWithSignature(lastCall'.sig)
           /\ Cardinality(EarlierWithSignature(lastCall'.sig)) = 1]_vars

C1_Witness ==
    /\ lastCall.n = 2
    /\ lastCall.hit
    /\ promises[lastCall.pid].st = "fulfilled"
    /\ fetches = 1

(* C2: no two pending resolutions have the same signature, and a call made   *)
(* while the resolution of its signature is pending gets that pending        *)
(* promise.                                                                   *)
C2_OneInFlightPerSignature ==
    /\ \A i, j \in DOMAIN promises :
          (i # j /\ promises[i].st = "pending" /\ promises[j].st = "pending")
             => PromiseSignature(promises[i]) # PromiseSignature(promises[j])
    /\ lastCall.n > 0 => PromiseSignature(promises[lastCall.pid]) = lastCall.sig

C2_Witness ==
    /\ lastCall.pendingHit
    /\ promises[lastCall.pid].st = "pending"
    /\ fetches = 1

(* C3: the result a call receives is derived from the map context (drawn     *)
(* polygon or viewport, working mask) current at the call: the buffer of a   *)
(* coastline question equals the uncached resolution under the mask of the   *)
(* moment of the call.                                                        *)
C3_NoStaleResult ==
    lastCall.n > 0 =>
        LET p == promises[lastCall.pid]
        IN /\ p.fingerprint = lastCall.sig.fingerprint
           /\ (p.type = "coastline" /\ p.st = "fulfilled")
                 => /\ CoastlineBuffer(p, lastCall.mask.g).st = "fulfilled"
                    /\ p.val = CoastlineBuffer(p, lastCall.mask.g).val

HiderifyOps == {"hiderifyMatching", "hiderifyMeasuring"}
AdjustOps == {"adjustPerMatching", "adjustPerMeasuring"}

(* the mask that applying the boundary of a run to its working mask gives *)
AppliedResult(r) ==
    IF r.boundary.k = "false" THEN r.mask
    ELSE ModifyMapData(r.mask.g, r.boundary.g, Polarity(r.q0))

(* C4: on the boundary-containment path, with the feature being the holed    *)
(* mask of the applied result, a hider inside the feature gets the incoming  *)
(* polarity flipped exactly once and a hider outside gets it unchanged, so   *)
(* the two yield opposite values.                                             *)
C4_InsideFlipsOutsideKeeps ==
    (lastRun.op \in HiderifyOps /\ lastRun.path = "first" /\ lastRun.ret = "returned")
       => /\ Polarity(lastRun.out) =
                 (Polarity(lastRun.q0) # (lastRun.hider.lng \in World \ AppliedResult(lastRun).g))
          /\ WithPolarity(lastRun.out, TRUE) = WithPolarity(lastRun.q0, TRUE)

C4_Witness ==
    /\ lastRun.op \in HiderifyOps
    /\ lastRun.path = "first"
    /\ lastRun.ret = "returned"
    /\ lastRun.hider.lng \notin AppliedResult(lastRun).g
    /\ Polarity(lastRun.out) # Polarity(lastRun.q0)

(* C5: for every boundary, working mask, hider point and incoming polarity,  *)
(* a second run of hiderify* on the descriptor the first run returned, in    *)
(* the same context, leaves the polarity as the first run left it.           *)
C5_DoubleApplicationStable ==
    (lastRun.op \in HiderifyOps /\ lastRun.second /\ lastRun.ret = "returned")
       => Polarity(lastRun.out) = Polarity(lastRun.q0)

(* C6: adjustPer* returns its input mask when the resolved boundary is the   *)
(* sentinel false, returns the boundary applied with the descriptor's        *)
(* polarity when it returns for another boundary, and never changes the      *)
(* stored working mask.                                                       *)
C6_AdjustReturnsMaskOrApplication ==
    lastRun.op \in AdjustOps =>
        /\ lastRun.maskAfter = lastRun.stored
        /\ (lastRun.path = "adjust" /\ lastRun.boundary.k = "false")
              => (lastRun.ret = "returned" /\ lastRun.val = lastRun.mapData)
        /\ (lastRun.path = "adjust" /\ lastRun.boundary.k # "false"
              /\ lastRun.ret = "returned")
              => /\ lastRun.boundary.k = "geom"
                 /\ lastRun.val = ModifyMapData(lastRun.mapData.g, lastRun.boundary.g,
                                                Polarity(lastRun.q0))

C6_Witness ==
    /\ lastRun.op = "adjustPerMeasuring"
    /\ lastRun.path = "adjust"
    /\ lastRun.boundary.k = "false"
    /\ lastRun.ret = "returned"
    /\ lastRun.val = lastRun.mapData

(* C7: a run of hiderify* in which required data is missing or a geometry    *)
(* primitive throws returns the descriptor with its outcome as before, and   *)
(* no exception reaches the caller.                                           *)
C7_FailureLeavesOutcome ==
    lastRun.op \in HiderifyOps =>
        /\ lastRun.ret = "returned"
        /\ lastRun.path \in {"nullMask", "noFeature", "bothFailed", "retry"}
              => lastRun.out = lastRun.q0

(* C8: when findAdminBoundary answers null the resolution is rejected with   *)
(* "No boundary found" after the notification, adjustPerMatching throws that *)
(* error and returns no mask, and the working mask stays as it was.          *)
C8_NoBoundaryAborts ==
    /\ \A i \in DOMAIN promises :
          (promises[i].answered /\ promises[i].type \in {"zone", "letter-zone"}
             /\ ~promises[i].zone.found)
             => /\ promises[i].st = "rejected"
                /\ promises[i].val = ErrV(NoBoundaryFound)
                /\ ToastNoBoundary \in toasts
    /\ (lastRun.op = "adjustPerMatching" /\ lastRun.path = "adjust"
          /\ promises[lastRun.pid].answered /\ ~promises[lastRun.pid].zone.found
          /\ promises[lastRun.pid].type \in {"zone", "letter-zone"})
          => /\ lastRun.ret = "threw"
             /\ lastRun.val = ErrV(NoBoundaryFound)
             /\ lastRun.maskAfter = lastRun.stored

C8_Witness ==
    /\ lastRun.op = "adjustPerMatching"
    /\ lastRun.q0.type = "zone"
    /\ lastRun.ret = "threw"
    /\ lastRun.val = ErrV(NoBoundaryFound)
    /\ ToastNoBoundary \in toasts
    /\ mapGeoJSON = lastRun.mapData

(* C9: for every enclosing zone the letter-zone resolver either fails with   *)
(* "No English name" or asks for the same-letter zones with a grouping       *)
(* letter that is a single ASCII letter A-Z, the upper-cased first character *)
(* of the English name (or of the native name when there is no English name  *)
(* and the native name starts with an ASCII letter); a zone with no English  *)
(* name and a native name that is missing or does not start with an ASCII    *)
(* letter always fails with "No English name".                                *)
C9_GroupingLetterIsAsciiOrFails ==
    \A i \in DOMAIN promises :
        LET p == promises[i]
            failed == p.st = "rejected" /\ p.val = ErrV(NoEnglishName) /\ p.letter = <<>>
        IN (p.type = "letter-zone" /\ p.answered /\ p.zone.found)
              => /\ failed \/ (Len(p.letter) = 1 /\ p.letter[1] \in AsciiUpper)
                 /\ (Falsy(p.zone.nameEn)
                       /\ (~p.zone.name.d \/ ~FirstIsAsciiLetter(p.zone.name)))
                       => failed

GateApplies(data) ==
    \/ data.remark.d /\ StartsWith(data.remark.s, RuntimeErrorMarker)
    \/ Len(data.elements) >= 1000

(* C10: for a "-full" subtype in either resolver, a provider answer whose    *)
(* remark starts with "runtime error" or that has 1000 or more elements      *)
(* surfaces a warning and gives an empty result into which no point of the   *)
(* answer went; any other answer gives exactly one point per element.        *)
C10_SafetyGate ==
    \A i \in DOMAIN promises :
        LET p == promises[i]
        IN (p.type \in FullTypes /\ p.answered)
              => IF GateApplies(p.data)
                   THEN /\ p.toast \in {ToastRuntime, ToastTooMany}
                        /\ p.toast \in toasts
                        /\ p.points = <<>>
                        /\ p.st = "fulfilled"
                        /\ p.val = IF p.fam = "matching" THEN UndefV ELSE Geom({})
                 ELSE /\ p.toast = ""
                      /\ Len(p.points) = Len(p.data.elements)
                      /\ \A j \in DOMAIN p.points :
                            p.points[j] = ToPoint(p.data.elements[j])

C10_Witness ==
    \E i, j \in DOMAIN promises :
        /\ promises[i].fam = "matching" /\ promises[i].type \in FullTypes
        /\ promises[i].answered
        /\ Len(promises[i].data.elements) = 1000
        /\ ~promises[i].data.remark.d
        /\ promises[i].toast = ToastTooMany /\ promises[i].points = <<>>
        /\ promises[j].fam = "measuring" /\ promises[j].type \in FullTypes
        /\ promises[j].answered
        /\ Len(promises[j].points) = 999
        /\ promises[j].val.k = "geom"

(* the index of the k-th element that is the first of its IATA code *)
FirstOfCode(els, k) ==
    LET firsts == {i \in DOMAIN els : \A j \in 1..(i - 1) : els[j].iata # els[i].iata}
    IN CHOOSE i \in firsts : Cardinality({j \in firsts : j < i}) = k - 1

(* C11: the airport point set of either resolver has exactly one point per   *)
(* distinct IATA code of the provider answer, built from the first element   *)
(* with the code in provider order, from its center when it has one and from *)
(* its direct coordinate otherwise.                                           *)
C11_OnePointPerIataCode ==
    \A i \in DOMAIN promises :
        LET p == promises[i]
            els == p.data.elements
        IN (p.type = "airport" /\ p.answered)
              => /\ Len(p.points) = Cardinality({els[j].iata : j \in DOMAIN els})
                 /\ \A k \in DOMAIN p.points :
                       LET e == els[FirstOfCode(els, k)]
                       IN p.points[k] = IF e.center # 0 THEN e.center ELSE e.lon

C11_Witness ==
    \E i, j \in DOMAIN promises :
        /\ promises[i].fam = "matching" /\ promises[j].fam = "measuring"
        /\ promises[i].type = "airport" /\ promises[j].type = "airport"
        /\ promises[i].answered /\ promises[j].answered
        /\ promises[i].data.elements =
              <<Element(0, 1, "AAA"), Element(NumCells, 2, "BBB"), Element(2, 1, "AAA")>>
        /\ promises[i].points = <<1, NumCells>>
        /\ Len(promises[j].data.elements) = 3
        /\ Len(promises[j].points) = 1

PlanningOps == {"matchingPlanningPolygon", "measuringPlanningPolygon"}

(* C12: the planning polygons never raise: they return false when the        *)
(* resolved boundary is the sentinel and when the resolution or the line     *)
(* conversion fails, and the line of the resolved boundary otherwise.        *)
C12_PlanningPolygonNeverRaises ==
    lastRun.op \in PlanningOps =>
        LET p == promises[lastRun.pid]
            converts == /\ p.st = "fulfilled"
                        /\ p.val.k = "geom"
                        /\ LineCall(p.val) \notin faulty
        IN /\ lastRun.ret = "returned"
           /\ lastRun.boundary = p.val
           /\ lastRun.val = IF converts THEN V("line", p.val.g) ELSE FalseV

C12_Witness ==
    /\ lastRun.op = "matchingPlanningPolygon"
    /\ lastRun.q0.type = "letter-zone"
    /\ promises[lastRun.pid].st = "rejected"
    /\ promises[lastRun.pid].val = ErrV(NoEnglishName)
    /\ lastRun.ret = "returned"
    /\ lastRun.val = FalseV

(* C13: for a measuring subtype without a boundary, hiderifyMeasuring in     *)
(* hider mode returns hiderCloser = (the hider's nearest-feature distance <  *)
(* the seeker's), for every working mask and hider position.                 *)
C13_HiderCloserIsDistanceComparison ==
    (lastRun.op = "hiderifyMeasuring" /\ lastRun.q0.type \in NoBoundaryMeasuring
       /\ lastRun.near.used /\ lastRun.ret = "returned")
       => lastRun.out.hiderCloser = (lastRun.near.hider.dist < lastRun.near.seeker.dist)

(* C14: for a category-zone matching subtype, hiderifyMatching in hider mode *)
(* sets same to true exactly when the feature nearest to the question and    *)
(* the feature nearest to the hider are the same feature, and resolves no    *)
(* boundary and applies no mask.                                              *)
C14_SameIsFeatureIdentity ==
    (lastRun.op = "hiderifyMatching" /\ lastRun.q0.type \in CategoryZones
       /\ lastRun.near.used)
       => /\ lastRun.ret = "returned"
          /\ lastRun.out.same = (lastRun.near.seeker.id = lastRun.near.hider.id)
          /\ lastRun.attempts = 0
          /\ promises = <<>>

NameUsed(f) == IF f.nameEn.d /\ f.nameEn.s # <<>> THEN f.nameEn.s ELSE f.name.s

(* C15: for a same-length-station question in hider mode whose two nearest   *)
(* stations have a name, lengthComparison becomes "same" for names of equal  *)
(* length, "shorter" when the hider's is strictly shorter and "longer"       *)
(* otherwise, on the English name when present and the native name           *)
(* otherwise; same is left as it was.                                         *)
C15_LengthComparisonOfNames ==
    (lastRun.op = "hiderifyMatching" /\ lastRun.q0.type = "same-length-station"
       /\ lastRun.near.used
       /\ NameUsed(lastRun.near.hider) # <<>> /\ NameUsed(lastRun.near.seeker) # <<>>)
       => LET h == Len(NameUsed(lastRun.near.hider))
              k == Len(NameUsed(lastRun.near.seeker))
          IN /\ lastRun.ret = "returned"
             /\ lastRun.out.lengthComparison =
                   IF h = k THEN "same" ELSE IF h < k THEN "shorter" ELSE "longer"
             /\ lastRun.out.same = lastRun.q0.same

C15_Witness ==
    /\ lastRun.op = "hiderifyMatching"
    /\ lastRun.q0.type = "same-length-station"
    /\ lastRun.near.hider.nameEn = Name(<<"A">>)
    /\ lastRun.near.seeker.name = Name(<<"a", "b">>)
    /\ lastRun.out.lengthComparison = "shorter"
    /\ lastRun.q0.lengthComparison = "same"

(* C16: for a same-train-line question in hider mode, same becomes true      *)
(* exactly when the number of the hider's nearest station is among the nodes *)
(* returned for the seeker's nearest station, and no later step of the call  *)
(* changes it.                                                                *)
C16_SameIsLineMembership ==
    (lastRun.op = "hiderifyMatching" /\ lastRun.q0.type = "same-train-line"
       /\ lastRun.near.used)
       => /\ lastRun.ret = "returned"
          /\ lastRun.out.same = (lastRun.near.hider.id \in lastRun.near.nodes)
          /\ lastRun.attempts = 0

C16_Witness ==
    /\ lastRun.op = "hiderifyMatching"
    /\ lastRun.q0.type = "same-train-line"
    /\ lastRun.near.used
    /\ lastRun.near.hider.id # lastRun.near.seeker.id
    /\ lastRun.near.hider.id \in lastRun.near.nodes
    /\ lastRun.path = "noName"
    /\ ~lastRun.q0.same /\ lastRun.out.same

(* the run worked on a point-set resolution that found no Voronoi cell *)
NoCellRun(r) ==
    /\ r.pid \in DOMAIN promises
    /\ r.q0.type \in PlacesMatching \cup {"custom-points"}
    /\ promises[r.pid].st = "fulfilled"
    /\ promises[r.pid].val.k = "undefined"

C18_RetryGivesFirstAttemptAnswer ==
    lastRun.op \in HiderifyOps =>
        /\ lastRun.attempts <= 2
        /\ (lastRun.path = "retry" /\ lastRun.ret = "returned"
              /\ lastRun.boundary.k = "geom" /\ AppliedResult(lastRun).k = "geom")
              => Polarity(lastRun.out) =
                    (Polarity(lastRun.q0)
                       # (lastRun.hider.lng \in World \ AppliedResult(lastRun).g))

(* C19: the cache key is exactly the signature: descriptors whose type, lat, *)
(* lng, cat, geo and map-context fingerprint are deep-equal share one cache  *)
(* entry whatever their outcome fields are, and descriptors that differ in   *)
(* one of these fields never share an entry.                                  *)
C19_KeyIsDeepEqualSignature ==
    /\ \A i, j \in DOMAIN promises :
          PromiseSignature(promises[i]) = PromiseSignature(promises[j]) => i = j
    /\ lastCall.n > 0 => PromiseSignature(promises[lastCall.pid]) = lastCall.sig

(* the signature as serialized: the geometry with its property order *)
SerializedSignature(sig, q) == [sig |-> sig, geo |-> StringifyGeo(q)]

(* C19 as amended: descriptors whose type, lat, lng, cat, geo and            *)
(* fingerprint serialize to the same JSON text share one cache entry         *)
(* whatever their outcome fields are, and descriptors whose serializations   *)
(* differ never share an entry.                                               *)
C19_KeyIsSerializedSignature ==
    /\ \A i, j \in DOMAIN promises :
          SerializedSignature(PromiseSignature(promises[i]), promises[i].origin)
            = SerializedSignature(PromiseSignature(promises[j]), promises[j].origin)
          => i = j
    /\ lastCall.n > 0 =>
          SerializedSignature(PromiseSignature(promises[lastCall.pid]),
                              promises[lastCall.pid].origin)
            = SerializedSignature(lastCall.sig, lastCall.q)

C19_Witness ==
    /\ lastCall.n = 2
    /\ lastCall.hit
    /\ Len(promises) = 1
    /\ lastCall.q.type = "custom-zone"
    /\ lastCall.q.same # promises[1].origin.same
    /\ lastCall.q.geoOrder = promises[1].origin.geoOrder

(* the resolution failed or was aborted by the safety gate *)
FailedOrAborted(p) ==
    \/ p.st = "rejected"
    \/ p.answered /\ p.type \in FullTypes /\ p.toast \in {ToastRuntime, ToastTooMany}

(* C20: once the resolution of a signature has failed or was aborted by the  *)
(* safety gate, it stays as it is, and every later call with that signature  *)
(* gets that same failure or empty result, with no new provider request and  *)
(* no new notification.                                                       *)
C20_FailuresAreMemoized ==
    [][\A i \in DOMAIN promises :
          FailedOrAborted(promises[i])
             => /\ i \in DOMAIN promises'
                /\ promises'[i] = promises[i]
                /\ (lastCall'.n = lastCall.n + 1
                      /\ lastCall'.sig = PromiseSignature(promises[i]))
                      => /\ lastCall'.pid = i
                         /\ Len(promises') = Len(promises)
                         /\ fetches' = fetches
                         /\ toasts' = toasts]_vars

C20_Witness ==
    /\ lastCall.n = 2
    /\ lastCall.hit
    /\ Len(promises) = 1
    /\ lastCall.q.type = "museum-full"
    /\ promises[1].toast = ToastRuntime
    /\ promises[1].st = "fulfilled"
    /\ lastCall.q.same # promises[1].origin.same

(* a call of hiderify* is made in this step: it returns at once or suspends  *)
HiderifyStep == task.pc = "idle" /\ (lastRun' # lastRun \/ task' # task)

(* C21: with hider mode off, hiderifyMatching and hiderifyMeasuring return   *)
(* the descriptor they were given with every field as it was, and make no    *)
(* provider request, no nearest-feature lookup, no cache lookup or insertion *)
(* and no mask application: the caches, the promises, the request count, the *)
(* working mask and the geometry primitives are as before.                   *)
C21_HiderOffReturnsInputUntouched ==
    [][(HiderifyStep /\ ~hiderMode.on /\ hiderMode' = hiderMode)
          => /\ task' = task
             /\ lastRun'.op \in HiderifyOps
             /\ lastRun'.ret = "returned"
             /\ lastRun'.q0 = question
             /\ lastRun'.out = question
             /\ question' = question
             /\ lastRun'.attempts = 0
             /\ lastRun'.near = NoNear
             /\ UNCHANGED <<promises, matchCache, bufCache, fetches, toasts,
                            lastCall, mapGeoJSON, polyGeoJSON, faulty, sound>>]_vars

(* hiderify* has returned with hider mode off, over a loaded map, on a       *)
(* question whose boundary an earlier call with hider mode on has cached     *)
C21_Witness ==
    /\ lastRun.op \in HiderifyOps
    /\ lastRun.path = "hiderOff"
    /\ ~lastRun.hider.on
    /\ ~hiderMode.on
    /\ lastRun.mask.k = "geom"
    /\ question = lastRun.q0
    /\ MemoHas(CacheOf(question), KeyOf(question))
    /\ fetches > 0

====
